---------------------------- MODULE Spec2Model ----------------------------
(***************************************************************************)
(* Emirates ID backend: field extraction from recognised text              *)
(* (services/ocr_service.py) and validation of the extracted field map     *)
(* (services/validation_service.py), driven by the request handlers of     *)
(* app.py.                                                                 *)
(*                                                                         *)
(* A text is a sequence of characters; a character is the one-character    *)
(* string that names it ("7", "-", " ", "\t", ...); an Arabic letter is     *)
(* named by its name ("alef", "lam", ...).                                 *)
(***************************************************************************)
EXTENDS Integers, Sequences, FiniteSets, TLC

(***************************************************************************)
(* clock       the clock of the machine, read by datetime.now()            *)
(* req_text    the text of the request at hand, when it came as a text     *)
(* req_side    its side selector                                           *)
(* origin      "text" when req_data was extracted from req_text, "dict"    *)
(*             when the caller supplied req_data itself, "none" when idle  *)
(* req_data    the field map at hand                                       *)
(* outcome     the result of the last validate_emirates_id call on it      *)
(* checked_at  what the clock showed during that call                      *)
(* previous    the result and the time of the call before it on this map   *)
(* pc          where the request stands: "idle", "extracted", "validated", *)
(*             and "batch" while process_batch loops over its images       *)
(* service     what the start of app.py left in ocr_service: "ready", a    *)
(*             service without a reader ("no_reader"), or None ("none")    *)
(* images      the images array of the batch request at hand               *)
(* idx         the index process_batch's loop has reached in images        *)
(* results     the results list process_batch has built so far             *)
(***************************************************************************)
VARIABLES clock, req_text, req_side, origin, req_data, outcome, checked_at, previous, pc,
          service, images, idx, results

vars == <<clock, req_text, req_side, origin, req_data, outcome, checked_at, previous, pc,
          service, images, idx, results>>

(***************************************************************************)
(* Character classes of Python's re module                                 *)
(***************************************************************************)
DigitChars == <<"0", "1", "2", "3", "4", "5", "6", "7", "8", "9">>

UpperChars == <<"A", "B", "C", "D", "E", "F", "G", "H", "I", "J", "K", "L", "M",
                "N", "O", "P", "Q", "R", "S", "T", "U", "V", "W", "X", "Y", "Z">>

LowerChars == <<"a", "b", "c", "d", "e", "f", "g", "h", "i", "j", "k", "l", "m",
                "n", "o", "p", "q", "r", "s", "t", "u", "v", "w", "x", "y", "z">>

Range(f) == {f[i] : i \in DOMAIN f}

Letters == Range(UpperChars) \cup Range(LowerChars)
Spaces == {" ", "\t", "\n"}
ArabicChars == {"alef", "lam", "seen", "meem", "teh", "reh", "yeh", "khah",
                "hamza_above", "hamza_below", "sad", "dal", "thal", "kaf", "noon", "theh", "maksura"}

\* \d
IsDigit(c) == c \in Range(DigitChars)

\* \s : blank, tab and newline stand for the white-space class
IsSpace(c) == c \in Spaces

\* [A-Z] and [a-z] under re.IGNORECASE: any ASCII letter
IsLetter(c) == c \in Letters

\* the Arabic block U+0600..U+06FF
IsArabic(c) == c \in ArabicChars

\* \w
IsWordChar(c) == IsLetter(c) \/ IsDigit(c) \/ IsArabic(c) \/ c = "_"

\* [-\s]
IsIdSep(c) == c = "-" \/ IsSpace(c)

\* [/-]
IsDateSep(c) == c \in {"/", "-"}

\* [:\s]
IsLabelSep(c) == c = ":" \/ IsSpace(c)

DigitVal(c) == CHOOSE n \in 0..9 : DigitChars[n + 1] = c

\* str.lower() on one character
LowerChar(c) ==
    IF c \in Range(UpperChars)
    THEN LowerChars[CHOOSE i \in 1..26 : UpperChars[i] = c]
    ELSE c

\* str.lower()
Lower(t) == [i \in 1..Len(t) |-> LowerChar(t[i])]

\* str.replace(' ', '-')
ReplaceSpaceByDash(t) == [i \in 1..Len(t) |-> IF t[i] = " " THEN "-" ELSE t[i]]

\* t[i:j] of Python with 1-based i and exclusive j
Slice(t, i, j) == IF j <= i THEN <<>> ELSE SubSeq(t, i, j - 1)

\* the characters t[i], ..., t[i+n-1] exist and are all digits
DigitsAt(t, i, n) == i + n - 1 <= Len(t) /\ \A k \in i..(i + n - 1) : IsDigit(t[k])

\* the literal lit (lower case) stands at position i of t, ignoring case
LitAt(t, i, lit) ==
    /\ i >= 1
    /\ i + Len(lit) - 1 <= Len(t)
    /\ \A k \in 1..Len(lit) : LowerChar(t[i + k - 1]) = lit[k]

\* needle in haystack (both already lower-cased by the caller)
Contains(t, lit) == \E i \in 1..Len(t) : LitAt(t, i, lit)

\* least element of a non-empty set of integers
MinOf(S) == CHOOSE x \in S : \A y \in S : x <= y

\* first position >= i of t that is not in the class, Len(t)+1 if none
RECURSIVE SkipWhile(_, _, _)
SkipWhile(t, i, cls) ==
    IF i <= Len(t) /\ t[i] \in cls THEN SkipWhile(t, i + 1, cls) ELSE i

\* \b at position p, the boundary between t[p-1] and t[p]
WordBoundary(t, p) ==
    LET before == p - 1 >= 1 /\ p - 1 <= Len(t) /\ IsWordChar(t[p - 1])
        after == p >= 1 /\ p <= Len(t) /\ IsWordChar(t[p])
    IN before # after

\* str.strip()
RECURSIVE Strip(_)
Strip(t) ==
    IF t = <<>> THEN t
    ELSE IF IsSpace(t[1]) THEN Strip(Tail(t))
    ELSE IF IsSpace(t[Len(t)]) THEN Strip(SubSeq(t, 1, Len(t) - 1))
    ELSE t

(***************************************************************************)
(* The identity-number pattern 784[-\s]?\d{4}[-\s]?\d{7}[-\s]?\d{1}        *)
(***************************************************************************)
\* [-\s]? : an optional separator is consumed when it is there
SkipIdSep(t, i) == IF i <= Len(t) /\ IsIdSep(t[i]) THEN i + 1 ELSE i

\* end (exclusive) of the match of the pattern that starts at i, 0 if none
IdMatchEnd(t, i) ==
    LET a == i + 3
        b == SkipIdSep(t, a)
        c == SkipIdSep(t, b + 4)
        d == SkipIdSep(t, c + 7)
    IN IF /\ LitAt(t, i, <<"7", "8", "4">>)
          /\ DigitsAt(t, b, 4)
          /\ DigitsAt(t, c, 7)
          /\ DigitsAt(t, d, 1)
       THEN d + 1
       ELSE 0

\* re.search(id_pattern, text).group(0), <<>> when there is no match
SearchId(t) ==
    LET starts == {i \in 1..Len(t) : IdMatchEnd(t, i) # 0}
    IN IF starts = {} THEN <<>>
       ELSE LET i == MinOf(starts) IN Slice(t, i, IdMatchEnd(t, i))

(***************************************************************************)
(* The date pattern \d{1,2}[/-]\d{1,2}[/-]\d{4}                            *)
(***************************************************************************)
\* \d{1,2} followed by [/-]: position after the separator, 0 if no match
DayOrMonthEnd(t, i) ==
    IF DigitsAt(t, i, 2) /\ i + 2 <= Len(t) /\ IsDateSep(t[i + 2]) THEN i + 3
    ELSE IF DigitsAt(t, i, 1) /\ i + 1 <= Len(t) /\ IsDateSep(t[i + 1]) THEN i + 2
    ELSE 0

\* end (exclusive) of the match of the date pattern that starts at i, 0 if none
DateMatchEnd(t, i) ==
    LET a == DayOrMonthEnd(t, i)
        b == IF a = 0 THEN 0 ELSE DayOrMonthEnd(t, a)
    IN IF b # 0 /\ DigitsAt(t, b, 4) THEN b + 4 ELSE 0

\* re.findall(date_pattern, text): the non-overlapping matches, left to right
RECURSIVE FindDatesFrom(_, _)
FindDatesFrom(t, i) ==
    IF i > Len(t) THEN <<>>
    ELSE IF DateMatchEnd(t, i) # 0
         THEN <<Slice(t, i, DateMatchEnd(t, i))>> \o FindDatesFrom(t, DateMatchEnd(t, i))
         ELSE FindDatesFrom(t, i + 1)

FindDates(t) == FindDatesFrom(t, 1)

(***************************************************************************)
(* Field maps: a Python dict from field names to JSON values               *)
(***************************************************************************)
\* a string value, a number and None
Str(s) == [t |-> "str", s |-> s, n |-> 0]
Num(n) == [t |-> "int", s |-> <<>>, n |-> n]
None == [t |-> "none", s |-> <<>>, n |-> 0]

EmptyDict == [k \in {} |-> None]

\* data[k] = v
Put(d, k, v) == [x \in DOMAIN d \cup {k} |-> IF x = k THEN v ELSE d[x]]

\* data.get(k, default)
Get(d, k, default) == IF k \in DOMAIN d THEN d[k] ELSE default

\* truth value of a Python object in "if x:"
Truthy(v) == (v.t = "str" /\ v.s # <<>>) \/ (v.t = "int" /\ v.n # 0)

(***************************************************************************)
(* Front-side rules of the extractor                                       *)
(***************************************************************************)
\* [A-Z][a-z]+ under IGNORECASE at i: end (exclusive) of the word, 0 if none
WordEnd(t, i) ==
    LET e == SkipWhile(t, i, Letters)
    IN IF e - i >= 2 THEN e ELSE 0

\* (?:\s+[A-Z][a-z]+)* after a word that ends at e: end of the last word taken
RECURSIVE MoreWords(_, _)
MoreWords(t, e) ==
    LET s == SkipWhile(t, e, Spaces)
    IN IF s > e /\ WordEnd(t, s) # 0 THEN MoreWords(t, WordEnd(t, s)) ELSE e

\* ([A-Z][a-z]+(?:\s+[A-Z][a-z]+)+) at i: end (exclusive) of the group, 0 if none
NameGroupEnd(t, i) ==
    LET w == WordEnd(t, i)
    IN IF w = 0 THEN 0
       ELSE IF MoreWords(t, w) > w THEN MoreWords(t, w) ELSE 0

NameLabels == {<<"n", "a", "m", "e">>, <<"alef", "seen", "meem">>}

\* (?:name|<arabic>)[:\s]+(group) at i: start of the group, 0 if none
LabelledNameStart(t, i) ==
    LET ends == {i + Len(l) : l \in {l \in NameLabels : LitAt(t, i, l)}}
        ok == {SkipWhile(t, e, {":"} \cup Spaces) : e \in
                 {e \in ends : /\ SkipWhile(t, e, {":"} \cup Spaces) > e
                               /\ NameGroupEnd(t, SkipWhile(t, e, {":"} \cup Spaces)) # 0}}
    IN IF ok = {} THEN 0 ELSE MinOf(ok)

\* the two name_patterns tried in order with re.search; <<>> when neither matches
SearchName(t) ==
    LET starts == {i \in 1..Len(t) : LabelledNameStart(t, i) # 0}
    IN IF starts # {}
       THEN LET g == LabelledNameStart(t, MinOf(starts))
            IN Strip(Slice(t, g, NameGroupEnd(t, g)))
       ELSE IF NameGroupEnd(t, 1) # 0
            THEN Strip(Slice(t, 1, NameGroupEnd(t, 1)))
            ELSE <<>>

\* re.findall of a one-or-more character class: its maximal runs, left to right
RECURSIVE RunsFrom(_, _, _)
RunsFrom(t, i, cls) ==
    IF i > Len(t) THEN <<>>
    ELSE IF t[i] \in cls
         THEN <<Slice(t, i, SkipWhile(t, i, cls))>> \o RunsFrom(t, SkipWhile(t, i, cls), cls)
         ELSE RunsFrom(t, i + 1, cls)

\* max(matches, key=len): the first of the longest
LongestFirst(ms) ==
    ms[MinOf({i \in 1..Len(ms) : \A j \in 1..Len(ms) : Len(ms[j]) <= Len(ms[i])})]

nationality_keywords ==
    << <<"F", "i", "l", "i", "p", "i", "n", "o">>,
       <<"I", "n", "d", "i", "a", "n">>,
       <<"P", "a", "k", "i", "s", "t", "a", "n", "i">>,
       <<"B", "a", "n", "g", "l", "a", "d", "e", "s", "h", "i">>,
       <<"E", "g", "y", "p", "t", "i", "a", "n">>,
       <<"L", "e", "b", "a", "n", "e", "s", "e">> >>

\* the first keyword contained in the text, ignoring case; <<>> if none
SearchNationality(t) ==
    LET hits == {i \in 1..Len(nationality_keywords) :
                   Contains(Lower(t), Lower(nationality_keywords[i]))}
    IN IF hits = {} THEN <<>> ELSE nationality_keywords[MinOf(hits)]

\* re.search(r'\b(alt1|alt2|...)\b', text, re.IGNORECASE) finds a match
SearchWord(t, alts) ==
    \E i \in 1..Len(t) : \E l \in alts :
        /\ WordBoundary(t, i)
        /\ LitAt(t, i, l)
        /\ WordBoundary(t, i + Len(l))

MaleWords == {<<"m", "a", "l", "e">>, <<"m">>, <<"thal", "kaf", "reh">>}
FemaleWords == {<<"f", "e", "m", "a", "l", "e">>, <<"f">>,
                <<"hamza_above", "noon", "theh", "maksura">>}

\* end (exclusive) of the issue label that starts at i, as a set (empty if none)
IssueLabelEnds(t, i) ==
    {i + Len(l) : l \in {l \in {<<"i", "s", "s", "u", "e">>,
                                 <<"i", "s", "s", "u", "e", "d">>} : LitAt(t, i, l)}}
    \cup
    {e \in {SkipWhile(t, i + 5, Spaces) + 7} :
        /\ LitAt(t, i, <<"teh", "alef", "reh", "yeh", "khah">>)
        /\ LitAt(t, e - 7, <<"alef", "lam", "hamza_below", "sad", "dal", "alef", "reh">>)}

\* (?:issue|issued|<arabic>)[:\s]+(date) at i: start of the date, 0 if none
IssueDateStart(t, i) ==
    LET ok == {SkipWhile(t, e, {":"} \cup Spaces) : e \in
                 {e \in IssueLabelEnds(t, i) :
                     /\ SkipWhile(t, e, {":"} \cup Spaces) > e
                     /\ DateMatchEnd(t, SkipWhile(t, e, {":"} \cup Spaces)) # 0}}
    IN IF ok = {} THEN 0 ELSE MinOf(ok)

\* re.search(issue_pattern, text, re.IGNORECASE).group(1), <<>> if none
SearchIssueDate(t) ==
    LET starts == {i \in 1..Len(t) : IssueDateStart(t, i) # 0}
    IN IF starts = {} THEN <<>>
       ELSE LET g == IssueDateStart(t, MinOf(starts))
            IN Slice(t, g, DateMatchEnd(t, g))

\* the steps of _parse_front_side, each applied to the dict built so far
FrontId(d, t) ==
    IF SearchId(t) # <<>> THEN Put(d, "idNumber", Str(ReplaceSpaceByDash(SearchId(t)))) ELSE d

\* FrontDates with the expiry keyword consulted for two or more dates as well
FrontDates_KeywordFirst(d, t) ==
    LET dates == FindDates(t)
        labelled == \/ Contains(Lower(t), <<"e", "x", "p", "i", "r", "y">>)
                    \/ Contains(Lower(t), <<"e", "x", "p">>)
    IN IF Len(dates) >= 2
       THEN IF labelled
            THEN Put(Put(d, "expiryDate", Str(dates[1])), "dateOfBirth", Str(dates[2]))
            ELSE Put(Put(d, "dateOfBirth", Str(dates[1])), "expiryDate", Str(dates[2]))
       ELSE IF Len(dates) = 1
            THEN IF labelled
                 THEN Put(d, "expiryDate", Str(dates[1]))
                 ELSE Put(d, "dateOfBirth", Str(dates[1]))
            ELSE d

FrontDates(d, t) ==
    LET dates == FindDates(t)
    IN IF Len(dates) >= 2
       THEN Put(Put(d, "dateOfBirth", Str(dates[1])), "expiryDate", Str(dates[2]))
       ELSE IF Len(dates) = 1
            THEN IF \/ Contains(Lower(t), <<"e", "x", "p", "i", "r", "y">>)
                    \/ Contains(Lower(t), <<"e", "x", "p">>)
                 THEN Put(d, "expiryDate", Str(dates[1]))
                 ELSE Put(d, "dateOfBirth", Str(dates[1]))
            ELSE d

\* FrontName with the leading-name pattern left unanchored
FrontName_Unanchored(d, t) ==
    LET starts == {i \in 1..Len(t) : NameGroupEnd(t, i) # 0}
    IN IF starts = {} THEN d
       ELSE Put(d, "name", Str(Slice(t, MinOf(starts), NameGroupEnd(t, MinOf(starts)))))

FrontName(d, t) ==
    IF SearchName(t) # <<>> THEN Put(d, "name", Str(SearchName(t))) ELSE d

FrontArabicName(d, t) ==
    LET ms == RunsFrom(t, 1, ArabicChars \cup Spaces)
    IN IF ms # <<>> /\ Len(Strip(LongestFirst(ms))) > 3
       THEN Put(d, "nameArabic", Str(Strip(LongestFirst(ms))))
       ELSE d

FrontNationality(d, t) ==
    IF SearchNationality(t) # <<>> THEN Put(d, "nationality", Str(SearchNationality(t))) ELSE d

FrontGender(d, t) ==
    IF SearchWord(t, MaleWords) THEN Put(d, "gender", Str(<<"M", "a", "l", "e">>))
    ELSE IF SearchWord(t, FemaleWords)
         THEN Put(d, "gender", Str(<<"F", "e", "m", "a", "l", "e">>))
         ELSE d

FrontIssueDate(d, t) ==
    IF SearchIssueDate(t) # <<>> THEN Put(d, "issueDate", Str(SearchIssueDate(t))) ELSE d

parse_front_side(raw_text) ==
    FrontIssueDate(FrontGender(FrontNationality(FrontArabicName(FrontName(
        FrontDates(FrontId(EmptyDict, raw_text), raw_text),
        raw_text), raw_text), raw_text), raw_text), raw_text)

(***************************************************************************)
(* Back-side rules of the extractor                                        *)
(***************************************************************************)
\* re.findall(r'\b\d{9,}\b', text): runs of 9 or more digits between word boundaries
RECURSIVE FindCardNumbersFrom(_, _)
FindCardNumbersFrom(t, i) ==
    IF i > Len(t) THEN <<>>
    ELSE LET e == SkipWhile(t, i, Range(DigitChars))
         IN IF e - i >= 9 /\ WordBoundary(t, i) /\ WordBoundary(t, e)
            THEN <<Slice(t, i, e)>> \o FindCardNumbersFrom(t, e)
            ELSE FindCardNumbersFrom(t, i + 1)

BackCardNumber(d, t) ==
    LET ms == FindCardNumbersFrom(t, 1)
    IN IF ms # <<>> THEN Put(d, "cardNumber", Str(LongestFirst(ms))) ELSE d

parse_back_side(raw_text) ==
    FrontId(BackCardNumber(EmptyDict, raw_text), raw_text)

(***************************************************************************)
(* The date disambiguator (extract_dates)                                  *)
(***************************************************************************)
\* str.find(needle): the 0-based index of the first occurrence, -1 if none
Find(t, needle) ==
    LET hits == {i \in 1..(Len(t) + 1) :
                   /\ i + Len(needle) - 1 <= Len(t)
                   /\ \A k \in 1..Len(needle) : t[i + k - 1] = needle[k]}
    IN IF hits = {} THEN -1 ELSE MinOf(hits) - 1

\* t[a:b] of Python for 0-based a >= 0 and b >= 0
PySlice(t, a, b) == Slice(t, a + 1, (IF b < Len(t) THEN b ELSE Len(t)) + 1)

\* text_lower[max(0, date_pos-20):date_pos+20]
DateContext(text_lower, date_str) ==
    LET date_pos == Find(text_lower, date_str)
    IN PySlice(text_lower, IF date_pos - 20 > 0 THEN date_pos - 20 ELSE 0, date_pos + 20)

BirthWords == {<<"b", "i", "r", "t", "h">>, <<"d", "o", "b">>, <<"b", "o", "r", "n">>}
ExpiryWords == {<<"e", "x", "p", "i", "r", "y">>, <<"e", "x", "p">>, <<"v", "a", "l", "i", "d">>}
IssueWords == {<<"i", "s", "s", "u", "e">>, <<"i", "s", "s", "u", "e", "d">>}

\* the if/elif chain of the loop body: the key the date goes to, "" for none
DateRole_ExpiryFirst(context) ==
    IF \E w \in ExpiryWords : Contains(context, w) THEN "expiryDate"
    ELSE IF \E w \in BirthWords : Contains(context, w) THEN "dateOfBirth"
    ELSE IF \E w \in IssueWords : Contains(context, w) THEN "issueDate"
    ELSE ""

DateRole(context) ==
    IF \E w \in BirthWords : Contains(context, w) THEN "dateOfBirth"
    ELSE IF \E w \in ExpiryWords : Contains(context, w) THEN "expiryDate"
    ELSE IF \E w \in IssueWords : Contains(context, w) THEN "issueDate"
    ELSE ""

\* for date_str in found_dates: ..., from the i-th date on
RECURSIVE AssignDates(_, _, _, _)
AssignDates(dates, text_lower, found_dates, i) ==
    IF i > Len(found_dates) THEN dates
    ELSE LET role == DateRole(DateContext(text_lower, found_dates[i]))
         IN AssignDates(IF role = "" THEN dates ELSE Put(dates, role, Str(found_dates[i])),
                        text_lower, found_dates, i + 1)

extract_dates(text) == AssignDates(EmptyDict, Lower(text), FindDates(text), 1)

\* ' '.join(tokens)
RECURSIVE Join(_)
Join(tokens) ==
    IF tokens = <<>> THEN <<>>
    ELSE IF Len(tokens) = 1 THEN tokens[1]
    ELSE tokens[1] \o <<" ">> \o Join(Tail(tokens))

(***************************************************************************)
(* datetime.strptime and the comparison of datetimes                       *)
(*                                                                         *)
(* A datetime is <<year, month, day, t>>: t = 0 is midnight, the time of   *)
(* every parsed date, and t = 1 is any later time of that day.             *)
(***************************************************************************)
DATE_FORMATS ==
    << <<"d", "/", "m", "/", "Y">>,
       <<"d", "-", "m", "-", "Y">>,
       <<"Y", "/", "m", "/", "d">>,
       <<"Y", "-", "m", "-", "d">>,
       <<"d", ".", "m", ".", "Y">> >>

NoDate == <<0, 0, 0, 0>>

CharIn(s, i, cs) == i >= 1 /\ i <= Len(s) /\ s[i] \in cs

\* the alternatives of a directive that match at i, as end positions in the
\* order the regular expression of strptime tries them
\*   %d  3[0-1] | [1-2]\d | 0[1-9] | [1-9] | " "[1-9]
\*   %m  1[0-2] | 0[1-9] | [1-9]
\*   %Y  \d\d\d\d
DirectiveEnds(s, i, dir) ==
    LET nonzero == Range(DigitChars) \ {"0"}
        two == IF dir = "d"
               THEN \/ CharIn(s, i, {"3"}) /\ CharIn(s, i + 1, {"0", "1"})
                    \/ CharIn(s, i, {"1", "2"}) /\ CharIn(s, i + 1, Range(DigitChars))
                    \/ CharIn(s, i, {"0"}) /\ CharIn(s, i + 1, nonzero)
               ELSE \/ CharIn(s, i, {"1"}) /\ CharIn(s, i + 1, {"0", "1", "2"})
                    \/ CharIn(s, i, {"0"}) /\ CharIn(s, i + 1, nonzero)
        one == CharIn(s, i, nonzero)
        blank == dir = "d" /\ CharIn(s, i, {" "}) /\ CharIn(s, i + 1, nonzero)
    IN IF dir = "Y"
       THEN IF DigitsAt(s, i, 4) THEN <<i + 4>> ELSE <<>>
       ELSE (IF two THEN <<i + 2>> ELSE <<>>) \o (IF one THEN <<i + 1>> ELSE <<>>)
            \o (IF blank THEN <<i + 2>> ELSE <<>>)

\* int() of the digits of s[i..e-1], a leading blank skipped
RECURSIVE ToInt(_, _, _)
ToInt(s, i, e) ==
    IF e <= i THEN 0
    ELSE IF s[e - 1] = " " THEN 0
    ELSE 10 * ToInt(s, i, e - 1) + DigitVal(s[e - 1])

\* the first match of the items k.. of fmt at position i of s, in the order of
\* a backtracking matcher: [ok, end, v] with v the directive values found
RECURSIVE MatchFmt(_, _, _, _, _)
RECURSIVE TryEnds(_, _, _, _, _, _, _)
MatchFmt(s, i, fmt, k, v) ==
    IF k > Len(fmt) THEN [ok |-> TRUE, end |-> i, v |-> v]
    ELSE IF fmt[k] \in {"d", "m", "Y"}
         THEN TryEnds(s, i, fmt, k, v, DirectiveEnds(s, i, fmt[k]), 1)
         ELSE IF i <= Len(s) /\ s[i] = fmt[k]
              THEN MatchFmt(s, i + 1, fmt, k + 1, v)
              ELSE [ok |-> FALSE, end |-> 0, v |-> v]

TryEnds(s, i, fmt, k, v, ends, j) ==
    IF j > Len(ends) THEN [ok |-> FALSE, end |-> 0, v |-> v]
    ELSE LET r == MatchFmt(s, ends[j], fmt, k + 1,
                           [v EXCEPT ![fmt[k]] = ToInt(s, i, ends[j])])
         IN IF r.ok THEN r ELSE TryEnds(s, i, fmt, k, v, ends, j + 1)

IsLeap(y) == (y % 4 = 0 /\ y % 100 # 0) \/ y % 400 = 0

DaysIn(m, y) ==
    IF m = 2 THEN (IF IsLeap(y) THEN 29 ELSE 28)
    ELSE IF m \in {4, 6, 9, 11} THEN 30 ELSE 31

\* datetime.strptime(date_str, fmt): the datetime, NoDate for ValueError
strptime(date_str, fmt) ==
    LET r == MatchFmt(date_str, 1, fmt, 1, [x \in {"d", "m", "Y"} |-> 0])
    IN IF /\ r.ok
          /\ r.end = Len(date_str) + 1
          /\ r.v["Y"] >= 1
          /\ r.v["d"] <= DaysIn(r.v["m"], r.v["Y"])
       THEN <<r.v["Y"], r.v["m"], r.v["d"], 0>>
       ELSE NoDate

\* a < b on datetimes
DtLess(a, b) ==
    \E i \in 1..4 : a[i] < b[i] /\ \A j \in 1..(i - 1) : a[j] = b[j]

\* the first format of DATE_FORMATS that parses, NoDate if none does
parse_date(date_str) ==
    LET ok == {i \in 1..Len(DATE_FORMATS) : strptime(date_str, DATE_FORMATS[i]) # NoDate}
    IN IF ok = {} THEN NoDate ELSE strptime(date_str, DATE_FORMATS[MinOf(ok)])

validate_date_format(date_str) ==
    \E i \in 1..Len(DATE_FORMATS) : strptime(date_str, DATE_FORMATS[i]) # NoDate

validate_date_of_birth(dob_str, now) ==
    LET dob == parse_date(dob_str)
        min_date == <<1900, 1, 1, 0>>
    IN /\ dob # NoDate
       /\ ~DtLess(now, dob)
       /\ ~DtLess(dob, min_date)

\* validate_expiry_date with the comparison reversed
validate_expiry_date_Reversed(expiry_str, now) ==
    parse_date(expiry_str) # NoDate /\ DtLess(parse_date(expiry_str), now)

\* validate_expiry_date with >= in place of >
validate_expiry_date_NotStrict(expiry_str, now) ==
    parse_date(expiry_str) # NoDate /\ ~DtLess(parse_date(expiry_str), now)

validate_expiry_date(expiry_str, now) ==
    LET expiry == parse_date(expiry_str)
    IN expiry # NoDate /\ DtLess(now, expiry)

\* ID_NUMBER_PATTERN.match: ^ at the start, $ at the end or before a final newline
ID_NUMBER_PATTERN(t) ==
    LET e == IdMatchEnd(t, 1)
    IN e # 0 /\ (e = Len(t) + 1 \/ (e = Len(t) /\ t[e] = "\n"))

validate_id_number_format(id_number) ==
    ID_NUMBER_PATTERN(ReplaceSpaceByDash(id_number))

(***************************************************************************)
(* Confidence: Python floats                                               *)
(*                                                                         *)
(* A confidence is <<h, u>>: the double nearest to h/100 plus u units in   *)
(* the last place.  FloatSums tabulates IEEE-754 double addition for the   *)
(* operand pairs <<h, u>> + w/100 that the additions of the validator can  *)
(* meet, as <<h, u, w, u'>> with the sum being <<h + w, u'>>: for example  *)
(* 0.4 + 0.2 is 0.6000000000000001, one unit above the double 0.6.         *)
(***************************************************************************)
FloatSums ==
    { <<0, 0, 5, 0>>, <<0, 0, 10, 0>>, <<0, 0, 20, 0>>, <<0, 0, 30, 0>>, <<0, 0, 40, 0>>,
      <<5, 0, 5, 0>>, <<10, 0, 5, 1>>, <<10, 0, 20, 1>>, <<15, 1, 5, 0>>,
      <<20, 0, 5, 0>>, <<20, 0, 10, 1>>, <<20, 0, 20, 0>>, <<25, 0, 5, 0>>,
      <<30, 0, 40, 0>>, <<30, 1, 5, 1>>, <<30, 1, 20, 0>>, <<35, 1, 5, 0>>,
      <<40, 0, 5, 0>>, <<40, 0, 10, 0>>, <<40, 0, 20, 1>>, <<45, 0, 5, 0>>,
      <<50, 0, 5, 0>>, <<50, 0, 20, 0>>, <<55, 0, 5, 1>>,
      <<60, 1, 5, 1>>, <<60, 1, 10, 1>>, <<60, 1, 20, 0>>, <<65, 1, 5, 2>>,
      <<70, 0, 5, 0>>, <<70, 1, 5, 1>>, <<70, 1, 20, 1>>, <<75, 0, 5, 0>>, <<75, 1, 5, 1>>,
      <<80, 0, 5, 1>>, <<85, 1, 5, 1>>, <<90, 1, 5, 2>>, <<95, 2, 5, 1>> }

\* confidence += w/100
FloatAdd(c, w) == <<c[1] + w, CHOOSE u \in 0..2 : <<c[1], c[2], w, u>> \in FloatSums>>

\* a < b on floats
FloatLess(a, b) == a[1] < b[1] \/ (a[1] = b[1] /\ a[2] < b[2])

\* min(a, b) of Python: b when b < a, otherwise a
FloatMin(a, b) == IF FloatLess(b, a) THEN b ELSE a

\* the float literal h/100
Float(h) == <<h, 0>>

(***************************************************************************)
(* The validator                                                           *)
(*                                                                         *)
(* A side-specific validation runs on a record of its locals, of the two   *)
(* lists it appends to and of the exception it raised, if any; a step that *)
(* follows a raised exception does nothing.                                *)
(***************************************************************************)
NoException == "none"

\* an entry of errors or warnings: the message and the value formatted into it
Entry(msg, arg) == [msg |-> msg, arg |-> arg]

\* Locals with the errors list kept from one call to the next
Locals_Shared ==
    [confidence |-> Float(0), is_emirates_id |-> FALSE,
     errors |-> outcome.errors, warnings |-> <<>>, raised |-> NoException]

\* errors = [], warnings = [], confidence = 0.0, is_emirates_id = False
Locals ==
    [confidence |-> Float(0), is_emirates_id |-> FALSE,
     errors |-> <<>>, warnings |-> <<>>, raised |-> NoException]

Error(st, msg, arg) == [st EXCEPT !.errors = Append(@, Entry(msg, arg))]
Warning(st, msg, arg) == [st EXCEPT !.warnings = Append(@, Entry(msg, arg))]
Credit(st, w) == [st EXCEPT !.confidence = FloatAdd(@, w)]
Raise(st, exc) == [st EXCEPT !.raised = exc]

\* '{confidence:.2f}'
Format2f(c) == Num(c[1])

\* FrontCheckIdNumber with the credit given to a malformed number as well
FrontCheckIdNumber_CreditsMalformed(st, data) ==
    LET id_number == Get(data, "idNumber", Str(<<>>))
    IN IF st.raised # NoException THEN st
       ELSE IF Truthy(id_number)
            THEN IF id_number.t # "str"
                 THEN Raise(st, "'int' object has no attribute 'replace'")
                 ELSE IF validate_id_number_format(id_number.s)
                      THEN [Credit(st, 40) EXCEPT !.is_emirates_id = TRUE]
                      ELSE Credit(Error(st, "Invalid ID number format", id_number), 40)
            ELSE Warning(st, "ID number not found in extracted text", None)

FrontCheckIdNumber(st, data) ==
    LET id_number == Get(data, "idNumber", Str(<<>>))
    IN IF st.raised # NoException THEN st
       ELSE IF Truthy(id_number)
            THEN IF id_number.t # "str"
                 THEN Raise(st, "'int' object has no attribute 'replace'")
                 ELSE IF validate_id_number_format(id_number.s)
                      THEN [Credit(st, 40) EXCEPT !.is_emirates_id = TRUE]
                      ELSE Error(st, "Invalid ID number format", id_number)
            ELSE Warning(st, "ID number not found in extracted text", None)

FrontCheckName(st, data) ==
    IF st.raised # NoException THEN st
    ELSE IF Truthy(Get(data, "name", None))
         THEN Credit(st, 20)
         ELSE Warning(st, "Name not found", None)

\* FrontCheckDateOfBirth with an implausible date recorded as a hard error
FrontCheckDateOfBirth_AsError(st, data, now) ==
    LET dob == Get(data, "dateOfBirth", None)
    IN IF st.raised # NoException THEN st
       ELSE IF Truthy(dob)
            THEN IF dob.t # "str"
                 THEN Raise(st, "strptime() argument 1 must be str, not int")
                 ELSE IF validate_date_format(dob.s)
                      THEN IF validate_date_of_birth(dob.s, now)
                           THEN Credit(st, 10)
                           ELSE Error(st, "Date of birth seems invalid", dob)
                      ELSE Warning(st, "Date of birth format unclear", dob)
            ELSE st

FrontCheckDateOfBirth(st, data, now) ==
    LET dob == Get(data, "dateOfBirth", None)
    IN IF st.raised # NoException THEN st
       ELSE IF Truthy(dob)
            THEN IF dob.t # "str"
                 THEN Raise(st, "strptime() argument 1 must be str, not int")
                 ELSE IF validate_date_format(dob.s)
                      THEN IF validate_date_of_birth(dob.s, now)
                           THEN Credit(st, 10)
                           ELSE Warning(st, "Date of birth seems invalid", dob)
                      ELSE Warning(st, "Date of birth format unclear", dob)
            ELSE st

FrontCheckExpiry(st, data, now) ==
    LET expiry == Get(data, "expiryDate", None)
    IN IF st.raised # NoException THEN st
       ELSE IF Truthy(expiry)
            THEN IF expiry.t # "str"
                 THEN Raise(st, "strptime() argument 1 must be str, not int")
                 ELSE IF validate_date_format(expiry.s)
                      THEN IF validate_expiry_date(expiry.s, now)
                           THEN Credit(st, 20)
                           ELSE Error(st, "Emirates ID has expired", expiry)
                      ELSE Warning(st, "Expiry date format unclear", expiry)
            ELSE Warning(st, "Expiry date not found", None)

FrontCheckNationality(st, data) ==
    IF st.raised = NoException /\ Truthy(Get(data, "nationality", None))
    THEN Credit(st, 5)
    ELSE st

FrontCheckGender(st, data) ==
    IF st.raised = NoException /\ Truthy(Get(data, "gender", None))
    THEN Credit(st, 5)
    ELSE st

\* CheckThreshold with the finding appended to errors
CheckThreshold_AsError(st, min_confidence) ==
    IF st.raised = NoException /\ FloatLess(st.confidence, Float(min_confidence))
    THEN Error(st, "Low confidence score", Format2f(st.confidence))
    ELSE st

\* if confidence < min_confidence: warnings.append(...)
CheckThreshold(st, min_confidence) ==
    IF st.raised = NoException /\ FloatLess(st.confidence, Float(min_confidence))
    THEN Warning(st, "Low confidence score", Format2f(st.confidence))
    ELSE st

\* Clamp without the min
Clamp_Missing(confidence) == confidence

\* 'confidence': min(confidence, 1.0)
Clamp(confidence) == FloatMin(confidence, Float(100))

FrontResult(st) == [st EXCEPT !.confidence = Clamp(@)]

validate_front_side(data, now) ==
    FrontResult(CheckThreshold(FrontCheckGender(FrontCheckNationality(
        FrontCheckExpiry(FrontCheckDateOfBirth(FrontCheckName(
            FrontCheckIdNumber(Locals, data), data), data, now), data, now),
        data), data), 50))

BackCheckPresence(st, data) ==
    IF Truthy(Get(data, "cardNumber", None)) \/ Truthy(Get(data, "idNumber", None))
    THEN [Credit(st, 30) EXCEPT !.is_emirates_id = TRUE]
    ELSE st

\* BackCheckIdNumber with the malformed number recorded as on the front side
BackCheckIdNumber_AsError(st, data) ==
    LET id_number == Get(data, "idNumber", Str(<<>>))
    IN IF Truthy(id_number)
       THEN IF id_number.t # "str"
            THEN Raise(st, "'int' object has no attribute 'replace'")
            ELSE IF validate_id_number_format(id_number.s)
                 THEN Credit(st, 40)
                 ELSE Error(st, "Invalid ID number format", id_number)
       ELSE st

BackCheckIdNumber(st, data) ==
    LET id_number == Get(data, "idNumber", Str(<<>>))
    IN IF Truthy(id_number)
       THEN IF id_number.t # "str"
            THEN Raise(st, "'int' object has no attribute 'replace'")
            ELSE IF validate_id_number_format(id_number.s)
                 THEN Credit(st, 40)
                 ELSE Warning(st, "ID number format unclear", id_number)
       ELSE st

\* 'is_emirates_id': is_emirates_id or confidence >= 0.3
BackResult(st) ==
    [st EXCEPT !.is_emirates_id = @ \/ ~FloatLess(st.confidence, Float(30)),
               !.confidence = Clamp(@)]

validate_back_side(data) ==
    LET st == CheckThreshold(BackCheckIdNumber(BackCheckPresence(Locals, data), data), 30)
    IN IF st.raised # NoException THEN st ELSE BackResult(st)

\* Verdict without the test of errors
Verdict_IgnoringErrors(is_emirates_id, errors) == is_emirates_id

\* is_valid = is_emirates_id and len(errors) == 0
Verdict(is_emirates_id, errors) == is_emirates_id /\ Len(errors) = 0

\* str(e) of the exception caught
ExcText(exc) == [t |-> "exc", s |-> <<exc>>, n |-> 0]

\* OnException with the exception swallowed
OnException_Swallowed(errors, exc) == errors

\* except Exception as e: errors.append(f"Validation error: {str(e)}")
OnException(errors, exc) == Append(errors, Entry("Validation error", ExcText(exc)))

validate_emirates_id(data, side, now) ==
    LET st == IF side = "front" THEN validate_front_side(data, now)
              ELSE validate_back_side(data)
    IN IF st.raised = NoException
       THEN [isValid |-> Verdict(st.is_emirates_id, st.errors),
             isEmiratesID |-> st.is_emirates_id,
             confidence |-> st.confidence,
             errors |-> st.errors,
             warnings |-> st.warnings]
       ELSE [isValid |-> FALSE,
             isEmiratesID |-> FALSE,
             confidence |-> Float(0),
             errors |-> OnException(st.errors, st.raised),
             warnings |-> st.warnings]

(***************************************************************************)
(* Inputs                                                                  *)
(***************************************************************************)
IdDashed == <<"7", "8", "4", "-", "1", "2", "3", "4", "-", "5", "6", "7", "8", "9", "0", "1", "-", "2">>
IdMixed == <<"7", "8", "4", " ", "1", "2", "3", "4", "\t", "5", "6", "7", "8", "9", "0", "1", "-", "2">>
IdBare == <<"7", "8", "4", "1", "2", "3", "4", "5", "6", "7", "8", "9", "0", "1", "2">>
NameText == <<"J", "o", "h", "n", " ", "S", "m", "i", "t", "h">>
BirthDate == <<"1", "5", "/", "0", "1", "/", "1", "9", "9", "0">>
FutureDate == <<"3", "1", "/", "1", "2", "/", "2", "0", "3", "0">>
PastDate == <<"0", "1", "/", "0", "1", "/", "2", "0", "0", "0">>
OldDate == <<"1", "/", "1", "/", "1", "8", "9", "9">>
MixedDate == <<"3", "1", "-", "1", "2", "/", "2", "0", "3", "0">>
IsoDate == <<"2", "0", "3", "0", "-", "1", "2", "-", "3", "1">>
ExpiryLabel == <<"E", "x", "p", "i", "r", "y", ":">>
MaleText == <<"M", "a", "l", "e">>
IndianText == <<"I", "n", "d", "i", "a", "n">>
CardText == <<"1", "2", "3", "4", "5", "6", "7", "8", "9", "0", "1", "2">>

\* the texts of the recognised tokens
Tokens ==
    {IdDashed, IdMixed, IdBare, NameText, BirthDate, FutureDate, PastDate,
     ExpiryLabel, MaleText, CardText}

\* at most this many tokens in one recognition result
MaxTokens == 2

RECURSIVE SeqsUpTo(_, _)
SeqsUpTo(S, n) ==
    IF n = 0 THEN {<<>>}
    ELSE SeqsUpTo(S, n - 1) \cup
         {Append(q, x) : q \in {q \in SeqsUpTo(S, n - 1) : Len(q) = n - 1}, x \in S}

\* the token lists of scenario A
ScenarioA == <<IdDashed, NameText, BirthDate, FutureDate>>

TokenLists == SeqsUpTo(Tokens, MaxTokens) \cup {ScenarioA}

Sides == {"front", "back"}

\* the values a caller's dict may hold under each key; a key may also be absent
ValuesOf(k) ==
    CASE k = "idNumber" -> {Str(IdDashed), Str(IdMixed), Str(<<"x">>), Str(<<>>), Num(5)}
      [] k = "name" -> {Str(NameText)}
      [] k = "dateOfBirth" -> {Str(BirthDate), Str(FutureDate), Str(OldDate),
                               Str(MixedDate), Num(5)}
      [] k = "expiryDate" -> {Str(FutureDate), Str(PastDate), Str(IsoDate),
                              Str(MixedDate), Num(5)}
      [] k = "nationality" -> {Str(IndianText)}
      [] k = "gender" -> {Str(MaleText)}
      [] k = "cardNumber" -> {Str(CardText)}

Keys == {"idNumber", "name", "dateOfBirth", "expiryDate", "nationality", "gender",
         "cardNumber"}

\* every dict that holds, under some of the keys ks, one of their values
RECURSIVE DictsOver(_)
DictsOver(ks) ==
    IF ks = {} THEN {EmptyDict}
    ELSE LET k == CHOOSE k \in ks : TRUE
             rest == DictsOver(ks \ {k})
         IN rest \cup {Put(f, k, v) : f \in rest, v \in ValuesOf(k)}

FieldMaps == DictsOver(Keys)

\* the instants the clock of the machine shows, in order
Instants == << <<2026, 11, 5, 1>>, <<2030, 12, 31, 0>> >>

(***************************************************************************)
(* The service: one request at a time (app.py, validate_id)                *)
(***************************************************************************)
NoOutcome ==
    [isValid |-> FALSE, isEmiratesID |-> FALSE, confidence |-> Float(0),
     errors |-> <<>>, warnings |-> <<Entry("no outcome", None)>>]

NoCall == [at |-> NoDate, result |-> NoOutcome]

Init ==
    /\ clock = Instants[1]
    /\ req_text = <<>>
    /\ req_side = "front"
    /\ origin = "none"
    /\ req_data = EmptyDict
    /\ outcome = NoOutcome
    /\ checked_at = NoDate
    /\ previous = NoCall
    /\ pc = "idle"
    /\ service = "ready"
    /\ images = <<>>
    /\ idx = 0
    /\ results = <<>>

\* OCRService.extract_text: the recognised tokens are joined and parsed
ExtractText ==
    /\ pc = "idle"
    /\ \E tokens \in TokenLists, s \in Sides :
          /\ req_text' = Join(tokens)
          /\ req_side' = s
          /\ req_data' = IF s = "front" THEN parse_front_side(Join(tokens))
                     ELSE parse_back_side(Join(tokens))
    /\ origin' = "text"
    /\ pc' = "extracted"
    /\ UNCHANGED <<clock, outcome, checked_at, previous, service, images, idx, results>>

\* a caller hands its own dict to ValidationService.validate_emirates_id
Supply ==
    /\ pc = "idle"
    /\ req_text' = <<>>
    /\ req_side' \in Sides
    /\ req_data' \in FieldMaps
    /\ origin' = "dict"
    /\ pc' = "extracted"
    /\ UNCHANGED <<clock, outcome, checked_at, previous, service, images, idx, results>>

\* ValidationService.validate_emirates_id on the dict at hand; a call that
\* follows another call on the same dict keeps the earlier result
Validate ==
    /\ pc \in {"extracted", "validated"}
    /\ outcome' = validate_emirates_id(req_data, req_side, clock)
    /\ checked_at' = clock
    /\ previous' = IF pc = "validated" THEN [at |-> checked_at, result |-> outcome]
                   ELSE NoCall
    /\ pc' = "validated"
    /\ UNCHANGED <<clock, req_text, req_side, origin, req_data, service, images, idx, results>>

\* the request is answered
Respond ==
    /\ pc = "validated"
    /\ pc' = "idle"
    /\ req_text' = <<>>
    /\ req_side' = "front"
    /\ origin' = "none"
    /\ req_data' = EmptyDict
    /\ outcome' = NoOutcome
    /\ checked_at' = NoDate
    /\ previous' = NoCall
    /\ UNCHANGED <<clock, service, images, idx, results>>

\* time passes
Tick ==
    /\ \E i \in 1..Len(Instants), j \in 1..Len(Instants) :
          /\ clock = Instants[i]
          /\ i < j
          /\ clock' = Instants[j]
    /\ UNCHANGED <<req_text, req_side, origin, req_data, outcome, checked_at, previous, pc,
                   service, images, idx, results>>

Next ==
    \/ ExtractText
    \/ Supply
    \/ Validate
    \/ Respond
    \/ Tick

Spec == Init /\ [][Next]_vars

(***************************************************************************)
(* The extractor alone, on texts with labels, names in any case, several   *)
(* dates and digit runs                                                    *)
(***************************************************************************)
IssuedLabel == <<"I", "s", "s", "u", "e", "d", ":">>
BirthLabel == <<"B", "i", "r", "t", "h">>
NameLabel == <<"N", "a", "m", "e", ":">>
LowerName == <<"j", "o", "h", "n", " ", "s", "m", "i", "t", "h">>
UpperName == <<"J", "O", "H", "N", " ", "S", "M", "I", "T", "H">>
ShortRun == <<"1", "2", "3", "4", "5", "6", "7", "8">>
OtherCard == <<"9", "8", "7", "6", "5", "4", "3", "2", "1", "0", "9", "8">>
PrefixedCard == <<"A", "B", "1", "2", "3", "4", "5", "6", "7", "8", "9", "0", "1", "2", "3", "4">>

\* the tokens of the texts a front side is parsed from
FrontWords ==
    {IdDashed, BirthDate, FutureDate, PastDate, ExpiryLabel, IssuedLabel, NameLabel,
     NameText, LowerName, UpperName}

\* the tokens of the texts a back side is parsed from
BackWords == {CardText, OtherCard, PrefixedCard, ShortRun, IdBare, IdDashed, NameText}

\* the tokens of the texts handed to extract_dates
DateWords == {BirthDate, FutureDate, ExpiryLabel, IssuedLabel, BirthLabel, IdDashed, NameText}

\* at most this many tokens in a text the extractor alone is run on
MaxWords == 3

\* a date with an expiry label more than 20 characters before it
FarKeyword == <<ExpiryLabel, IdDashed, NameText, FutureDate>>

\* three dates, the first of them right after an expiry label
ThreeDates == <<ExpiryLabel, FutureDate, BirthDate, PastDate>>

\* _parse_front_side on the joined tokens
ParseFront ==
    /\ pc = "idle"
    /\ \E tokens \in SeqsUpTo(FrontWords, MaxWords) \cup {FarKeyword, ThreeDates} :
          /\ req_text' = Join(tokens)
          /\ req_data' = parse_front_side(Join(tokens))
    /\ req_side' = "front"
    /\ origin' = "text"
    /\ pc' = "extracted"
    /\ UNCHANGED <<clock, outcome, checked_at, previous, service, images, idx, results>>

\* _parse_back_side on the joined tokens
ParseBack ==
    /\ pc = "idle"
    /\ \E tokens \in SeqsUpTo(BackWords, MaxWords) :
          /\ req_text' = Join(tokens)
          /\ req_data' = parse_back_side(Join(tokens))
    /\ req_side' = "back"
    /\ origin' = "text"
    /\ pc' = "extracted"
    /\ UNCHANGED <<clock, outcome, checked_at, previous, service, images, idx, results>>

\* extract_dates on a text
DisambiguateDates ==
    /\ pc = "idle"
    /\ \E tokens \in SeqsUpTo(DateWords, MaxWords) \cup {FarKeyword} :
          /\ req_text' = Join(tokens)
          /\ req_data' = extract_dates(Join(tokens))
    /\ req_side' = "front"
    /\ origin' = "dates"
    /\ pc' = "extracted"
    /\ UNCHANGED <<clock, outcome, checked_at, previous, service, images, idx, results>>

\* the extracted fields are returned and the next text is taken
Discard ==
    /\ pc = "extracted"
    /\ pc' = "idle"
    /\ req_text' = <<>>
    /\ req_side' = "front"
    /\ origin' = "none"
    /\ req_data' = EmptyDict
    /\ UNCHANGED <<clock, outcome, checked_at, previous, service, images, idx, results>>

ExtractNext ==
    \/ ParseFront
    \/ ParseBack
    \/ DisambiguateDates
    \/ Discard

ExtractSpec == Init /\ [][ExtractNext]_vars

(***************************************************************************)
(* Batch processing (app.py, process_batch)                                *)
(*                                                                         *)
(* An item of the images array is a record of what it is (kind), of the    *)
(* tokens the reader recognises on its image and of its side:              *)
(*   "notdict"      the item is no JSON object                             *)
(*   "missing"      it has no image, or an empty one                       *)
(*   "undecodable"  decode_base64_image raises on its image                *)
(*   "unreadable"   the reader raises on its image                         *)
(*   "ok"           the reader recognises its tokens                       *)
(* The side "absent" is that of an item without the key 'side'.            *)
(***************************************************************************)
Services == {"ready", "no_reader", "none"}

Item(kind, tokens, side) == [kind |-> kind, tokens |-> tokens, side |-> side]

BatchItems ==
    {Item("notdict", <<>>, "absent"),
     Item("missing", <<>>, "front"),
     Item("undecodable", <<>>, "back"),
     Item("unreadable", <<>>, "front"),
     Item("ok", <<IdDashed>>, "front"),
     Item("ok", <<CardText, IdDashed>>, "back"),
     Item("ok", <<IdDashed, FutureDate>>, "absent")}

\* at most this many images in one batch request
MaxImages == 3

\* OCRService.extract_text on a decoded image, as the dict it returns
extract_text(svc, item, side) ==
    IF svc = "no_reader"
    THEN [success |-> FALSE, has_data |-> FALSE, data |-> EmptyDict,
          error |-> "OCR reader not initialized. Please install EasyOCR."]
    ELSE IF item.kind = "unreadable"
         THEN [success |-> FALSE, has_data |-> FALSE, data |-> EmptyDict,
               error |-> "OCR extraction failed"]
         ELSE [success |-> TRUE, has_data |-> TRUE,
               data |-> IF side = "front" THEN parse_front_side(Join(item.tokens))
                        ELSE parse_back_side(Join(item.tokens)),
               error |-> ""]

\* an entry of results: the keys it has and their values
ItemResult(keys, i, side, ocr) ==
    [keys |-> keys, index |-> i, side |-> side, success |-> ocr.success,
     has_data |-> ocr.has_data, data |-> ocr.data, error |-> ocr.error]

Failure(error) == [success |-> FALSE, has_data |-> FALSE, data |-> EmptyDict, error |-> error]

\* the body of the inner try for the item at index i: the exception it
\* raises, if any, and the results list it leaves
TryItem(rs, item, i, svc) ==
    LET side == IF item.side = "absent" THEN "front" ELSE item.side
    IN IF item.kind = "notdict"
       THEN [raised |-> "'str' object has no attribute 'get'", results |-> rs]
       ELSE IF item.kind = "missing"
       THEN [raised |-> NoException,
             results |-> Append(rs, ItemResult({"index", "success", "error"}, i, "",
                                               Failure("Image is required")))]
       ELSE IF item.kind = "undecodable"
       THEN [raised |-> "Failed to decode image", results |-> rs]
       ELSE IF svc = "none"
       THEN [raised |-> "'NoneType' object has no attribute 'extract_text'", results |-> rs]
       ELSE [raised |-> NoException,
             results |-> Append(rs, ItemResult({"index", "side", "success", "data", "error"},
                                               i, side, extract_text(svc, item, side)))]

\* CatchItem with the exception swallowed and no entry recorded
CatchItem_Dropped(rs, i, exc) == rs

\* except Exception as e: results.append({'index': idx, 'success': False, 'error': str(e)})
CatchItem(rs, i, exc) ==
    Append(rs, ItemResult({"index", "success", "error"}, i, "", Failure(exc)))

\* one pass of the loop body
BatchItem(rs, item, i, svc) ==
    LET t == TryItem(rs, item, i, svc)
    IN IF t.raised # NoException THEN CatchItem(t.results, i, t.raised) ELSE t.results

\* the state in which the service starts: ocr_service as app.py's start left it
BatchInit ==
    /\ clock = Instants[1]
    /\ req_text = <<>>
    /\ req_side = "front"
    /\ origin = "none"
    /\ req_data = EmptyDict
    /\ outcome = NoOutcome
    /\ checked_at = NoDate
    /\ previous = NoCall
    /\ pc = "idle"
    /\ service \in Services
    /\ images = <<>>
    /\ idx = 0
    /\ results = <<>>

\* images = data['images']; results = []
BatchStart ==
    /\ pc = "idle"
    /\ images' \in SeqsUpTo(BatchItems, MaxImages)
    /\ idx' = 0
    /\ results' = <<>>
    /\ pc' = "batch"
    /\ UNCHANGED <<clock, req_text, req_side, origin, req_data, outcome, checked_at,
                   previous, service>>

\* for idx, img_data in enumerate(images): one item
BatchStep ==
    /\ pc = "batch"
    /\ idx < Len(images)
    /\ results' = BatchItem(results, images[idx + 1], idx, service)
    /\ idx' = idx + 1
    /\ UNCHANGED <<clock, req_text, req_side, origin, req_data, outcome, checked_at,
                   previous, pc, service, images>>

\* the loop is over: the response is composed of results
BatchReturn ==
    /\ pc = "batch"
    /\ idx = Len(images)
    /\ pc' = "batch_done"
    /\ UNCHANGED <<clock, req_text, req_side, origin, req_data, outcome, checked_at,
                   previous, service, images, idx, results>>

\* the response is sent and the next request is awaited
BatchClose ==
    /\ pc = "batch_done"
    /\ pc' = "idle"
    /\ images' = <<>>
    /\ idx' = 0
    /\ results' = <<>>
    /\ UNCHANGED <<clock, req_text, req_side, origin, req_data, outcome, checked_at,
                   previous, service>>

BatchNext ==
    \/ BatchStart
    \/ BatchStep
    \/ BatchReturn
    \/ BatchClose

BatchSpec == BatchInit /\ [][BatchNext]_vars

(***************************************************************************)
(* Properties                                                              *)
(***************************************************************************)
\* the value of a string field of the map at hand, <<>> when it has none
FieldStr(k) ==
    IF k \in DOMAIN req_data /\ req_data[k].t = "str" THEN req_data[k].s ELSE <<>>

OnlyStrings == \A k \in DOMAIN req_data : req_data[k].t = "str"

\* d without the key k
Remove(d, k) == [x \in DOMAIN d \ {k} |-> d[x]]

HasEntry(list, msg) == \E i \in 1..Len(list) : list[i].msg = msg

\* the exception the side-specific validation of the map at hand raises
SideRaised ==
    (IF req_side = "front" THEN validate_front_side(req_data, checked_at)
     ELSE validate_back_side(req_data)).raised

\* C1: after every validation, isValid holds exactly when isEmiratesID holds
\* and errors is empty.
C1_ValidIffEmiratesIdAndNoErrors ==
    pc = "validated" =>
        (outcome.isValid <=> (outcome.isEmiratesID /\ Len(outcome.errors) = 0))

C1_Witness ==
    /\ pc = "validated"
    /\ outcome.isEmiratesID
    /\ Len(outcome.errors) > 0
    /\ ~outcome.isValid

\* C2: when the side-specific validation raises, the outcome is invalid, is
\* not an Emirates ID, and errors ends with the one entry that describes the
\* exception.
C2_FaultBecomesOneError ==
    (pc = "validated" /\ SideRaised # NoException) =>
        /\ ~outcome.isValid
        /\ ~outcome.isEmiratesID
        /\ Len(outcome.errors) >= 1
        /\ outcome.errors[Len(outcome.errors)] = Entry("Validation error", ExcText(SideRaised))
        /\ Cardinality({i \in 1..Len(outcome.errors) :
                           outcome.errors[i].msg = "Validation error"}) = 1

C2_Witness ==
    /\ pc = "validated"
    /\ SideRaised # NoException
    /\ "dateOfBirth" \in DOMAIN req_data
    /\ req_data["dateOfBirth"].t = "int"
    /\ Len(outcome.errors) = 2

\* C3: the confidence of every outcome lies between 0.0 and 1.0.
C3_ConfidenceInUnitInterval ==
    pc = "validated" =>
        /\ ~FloatLess(outcome.confidence, Float(0))
        /\ ~FloatLess(Float(100), outcome.confidence)

C3_Witness ==
    /\ pc = "validated"
    /\ req_side = "front"
    /\ \A k \in {"idNumber", "name", "dateOfBirth", "expiryDate", "nationality", "gender"} :
          k \in DOMAIN req_data
    /\ outcome.confidence = Float(100)

\* scenario A: the text, validated on the front side before 31/12/2030
ScenarioAValidated ==
    /\ pc = "validated"
    /\ origin = "text"
    /\ req_side = "front"
    /\ req_text = Join(ScenarioA)
    /\ DtLess(checked_at, <<2030, 12, 31, 0>>)

\* C4 as stated: scenario A yields idNumber, name, dateOfBirth and expiryDate,
\* and validates with confidence 0.4 + 0.2 + 0.1 + 0.2.
C4_ScenarioAWithName ==
    ScenarioAValidated =>
        /\ req_data = Put(Put(Put(Put(EmptyDict, "idNumber", Str(IdDashed)),
                                  "name", Str(NameText)),
                              "dateOfBirth", Str(BirthDate)),
                          "expiryDate", Str(FutureDate))
        /\ outcome.isEmiratesID
        /\ outcome.isValid
        /\ outcome.confidence = FloatAdd(FloatAdd(FloatAdd(FloatAdd(Float(0), 40), 20), 10), 20)

\* C4: scenario A yields idNumber, dateOfBirth and expiryDate and no name,
\* and validates as a valid Emirates ID with confidence 0.4 + 0.1 + 0.2 and
\* the warning that the name was not found.
C4_ScenarioAWithoutName ==
    ScenarioAValidated =>
        /\ req_data = Put(Put(Put(EmptyDict, "idNumber", Str(IdDashed)),
                              "dateOfBirth", Str(BirthDate)),
                          "expiryDate", Str(FutureDate))
        /\ outcome.isEmiratesID
        /\ outcome.isValid
        /\ outcome.confidence = FloatAdd(FloatAdd(FloatAdd(Float(0), 40), 10), 20)
        /\ outcome.confidence = Float(70)
        /\ outcome.errors = <<>>
        /\ outcome.warnings = <<Entry("Name not found", None)>>

C4_Witness == ScenarioAValidated

\* no substring of t has the shape of a date
NoDateShaped(t) == \A i \in 1..Len(t) : DateMatchEnd(t, i) = 0

\* C5 as stated: a text without a date-shaped substring yields neither
\* dateOfBirth nor expiryDate, and its front-side validation warns both that
\* the date of birth and that the expiry date was not found.
C5_TwoNotFoundWarnings ==
    (pc = "validated" /\ origin = "text" /\ req_side = "front" /\ NoDateShaped(req_text)) =>
        /\ "dateOfBirth" \notin DOMAIN req_data
        /\ "expiryDate" \notin DOMAIN req_data
        /\ HasEntry(outcome.warnings, "Expiry date not found")
        /\ \E i \in 1..Len(outcome.warnings) :
              outcome.warnings[i].msg \in {"Date of birth not found",
                                           "Date of birth seems invalid",
                                           "Date of birth format unclear"}

\* the map at hand gives no ground for a hard error and shows the document type
NoHardFinding ==
    /\ OnlyStrings
    /\ IF req_side = "front"
       THEN /\ validate_id_number_format(FieldStr("idNumber"))
            /\ ~(/\ parse_date(FieldStr("expiryDate")) # NoDate
                 /\ ~DtLess(checked_at, parse_date(FieldStr("expiryDate"))))
       ELSE FieldStr("cardNumber") # <<>> \/ FieldStr("idNumber") # <<>>

ValidExpiries(t) ==
    {e \in {FutureDate, PastDate, IsoDate, MixedDate,
            <<"2", "0", "3", "1", "/", "0", "1", "/", "0", "1">>,
            <<"3", "1", ".", "1", "2", ".", "2", "0", "3", "0">>} :
        parse_date(e) # NoDate /\ DtLess(t, parse_date(e))}

\* C8: on the front side, a field map without expiryDate that is extended by
\* an expiry date that parses and lies after the current time validates with
\* a confidence that is not lower, and stays valid if it was valid.
C8_ValidExpiryIsMonotone ==
    (/\ pc = "validated"
     /\ checked_at = clock
     /\ req_side = "front"
     /\ "expiryDate" \notin DOMAIN req_data) =>
        \A e \in ValidExpiries(clock) :
            LET extended == validate_emirates_id(
                                Put(req_data, "expiryDate", Str(e)), "front", clock)
            IN /\ ~FloatLess(extended.confidence, outcome.confidence)
               /\ outcome.isValid => extended.isValid

C8_Witness ==
    /\ pc = "validated"
    /\ checked_at = clock
    /\ req_side = "front"
    /\ "expiryDate" \notin DOMAIN req_data
    /\ outcome.isValid
    /\ Cardinality(ValidExpiries(clock)) >= 3

\* every separator of an identity number, blank or not, replaced by a dash
DashNormalized(t) == [i \in 1..Len(t) |-> IF IsIdSep(t[i]) THEN "-" ELSE t[i]]

\* C9 as stated: from a text that contains an identity number the front side
\* extracts the dash-normalized form of the first one, and validation credits
\* it with 0.4 and sets isEmiratesID.
C9_IdNumberIsDashNormalized ==
    (/\ pc \in {"extracted", "validated"}
     /\ origin = "text"
     /\ req_side = "front"
     /\ SearchId(req_text) # <<>>) =>
        /\ "idNumber" \in DOMAIN req_data
        /\ req_data["idNumber"] = Str(DashNormalized(SearchId(req_text)))
        /\ pc = "validated" =>
              /\ outcome.isEmiratesID
              /\ ~FloatLess(outcome.confidence, Float(40))

\* the expiry date of the map at hand, on the front side, validation not faulting
FrontExpiryChecked ==
    /\ pc = "validated"
    /\ req_side = "front"
    /\ SideRaised = NoException
    /\ FieldStr("expiryDate") # <<>>

\* C10: on the front side an expiry date that parses and is not after the
\* current time gives the hard error "expired", no credit and an invalid
\* outcome; one that does not parse gives a warning and no hard error.
C10_ExpiredIsErrorUnparseableIsWarning ==
    FrontExpiryChecked =>
        IF parse_date(FieldStr("expiryDate")) = NoDate
        THEN /\ HasEntry(outcome.warnings, "Expiry date format unclear")
             /\ ~HasEntry(outcome.errors, "Emirates ID has expired")
             /\ Len(outcome.errors) =
                  Len(validate_emirates_id(Remove(req_data, "expiryDate"),
                                           "front", checked_at).errors)
        ELSE IF ~DtLess(checked_at, parse_date(FieldStr("expiryDate")))
             THEN /\ HasEntry(outcome.errors, "Emirates ID has expired")
                  /\ ~outcome.isValid
                  /\ outcome.confidence =
                       validate_emirates_id(Remove(req_data, "expiryDate"),
                                            "front", checked_at).confidence
             ELSE ~HasEntry(outcome.errors, "Emirates ID has expired")

C10_Witness ==
    /\ FrontExpiryChecked
    /\ parse_date(FieldStr("expiryDate")) = checked_at
    /\ outcome.isEmiratesID
    /\ ~outcome.isValid
    /\ Len(outcome.errors) = 1

\* a text parsed as a front side is at hand
FrontParsed == pc \in {"extracted", "validated"} /\ origin = "text" /\ req_side = "front"

\* C11: when the text has two or more date-shaped substrings, the front side
\* stores the first as dateOfBirth and the second as expiryDate, whatever
\* keywords the text holds, and no later date takes the place of either.
C11_FirstTwoDatesByPosition ==
    (FrontParsed /\ Len(FindDates(req_text)) >= 2) =>
        /\ "dateOfBirth" \in DOMAIN req_data
        /\ "expiryDate" \in DOMAIN req_data
        /\ req_data["dateOfBirth"] = Str(FindDates(req_text)[1])
        /\ req_data["expiryDate"] = Str(FindDates(req_text)[2])
        /\ \A k \in 3..Len(FindDates(req_text)) :
              /\ FindDates(req_text)[k] # FindDates(req_text)[1] =>
                    req_data["dateOfBirth"] # Str(FindDates(req_text)[k])
              /\ FindDates(req_text)[k] # FindDates(req_text)[2] =>
                    req_data["expiryDate"] # Str(FindDates(req_text)[k])

C11_Witness ==
    /\ FrontParsed
    /\ req_text = Join(ThreeDates)
    /\ Contains(Lower(req_text), <<"e", "x", "p", "i", "r", "y">>)
    /\ Len(FindDates(req_text)) = 3
    /\ req_data["dateOfBirth"] = Str(FutureDate)
    /\ req_data["expiryDate"] = Str(BirthDate)

\* the weight, in hundredths, of each front-side check the map at hand passes
\* when it is validated at the instant t
IdWeight == IF validate_id_number_format(FieldStr("idNumber")) THEN 40 ELSE 0

NameWeight == IF FieldStr("name") # <<>> THEN 20 ELSE 0

BirthWeight(t) ==
    IF /\ parse_date(FieldStr("dateOfBirth")) # NoDate
       /\ ~DtLess(t, parse_date(FieldStr("dateOfBirth")))
       /\ ~DtLess(parse_date(FieldStr("dateOfBirth")), <<1900, 1, 1, 0>>)
    THEN 10 ELSE 0

ExpiryWeight(t) ==
    IF /\ parse_date(FieldStr("expiryDate")) # NoDate
       /\ DtLess(t, parse_date(FieldStr("expiryDate")))
    THEN 20 ELSE 0

NationalityWeight == IF FieldStr("nationality") # <<>> THEN 5 ELSE 0

GenderWeight == IF FieldStr("gender") # <<>> THEN 5 ELSE 0

PassedWeights(t) ==
    IdWeight + NameWeight + BirthWeight(t) + ExpiryWeight(t) + NationalityWeight + GenderWeight

\* C12: the front-side confidence of a map of strings is the sum of the
\* weights 0.4, 0.2, 0.1, 0.2, 0.05 and 0.05 of the checks it passes (as a
\* float, within two units in the last place of it), a malformed idNumber
\* adding nothing, and it is 1.0 exactly when all six checks pass.
C12_ConfidenceIsSumOfPassedWeights ==
    (pc = "validated" /\ req_side = "front" /\ OnlyStrings) =>
        /\ outcome.confidence[1] = PassedWeights(checked_at)
        /\ outcome.confidence[2] \in 0..2
        /\ (outcome.confidence = Float(100)) <=> (PassedWeights(checked_at) = 100)
        /\ (FieldStr("idNumber") # <<>> /\ IdWeight = 0) =>
              outcome.confidence =
                  validate_emirates_id(Remove(req_data, "idNumber"), "front",
                                       checked_at).confidence

C12_Witness ==
    /\ pc = "validated"
    /\ req_side = "front"
    /\ OnlyStrings
    /\ FieldStr("idNumber") # <<>>
    /\ IdWeight = 0
    /\ NameWeight = 20
    /\ BirthWeight(checked_at) = 0
    /\ FieldStr("dateOfBirth") = OldDate
    /\ ExpiryWeight(checked_at) = 20
    /\ outcome.confidence = Float(40)

\* start of the first date-shaped substring of t, 0 if there is none
FirstDateStart(t) ==
    LET starts == {i \in 1..Len(t) : DateMatchEnd(t, i) # 0}
    IN IF starts = {} THEN 0 ELSE MinOf(starts)

\* an expiry keyword of t lies, at least in part, within 20 characters of the
\* date that starts at p
ExpiryKeywordNear(t, p) ==
    \E i \in 1..Len(t) :
        /\ LitAt(t, i, <<"e", "x", "p">>)
        /\ i + 2 >= p - 20
        /\ i <= DateMatchEnd(t, p) - 1 + 20

\* C13 as stated: the only date-shaped substring of a text becomes expiryDate
\* when an expiry keyword lies within 20 characters of it, and dateOfBirth
\* otherwise, also when the keyword stands elsewhere in the text.
C13_SingleDateByKeywordWindow ==
    (FrontParsed /\ Len(FindDates(req_text)) = 1) =>
        IF ExpiryKeywordNear(req_text, FirstDateStart(req_text))
        THEN /\ "expiryDate" \in DOMAIN req_data
             /\ req_data["expiryDate"] = Str(FindDates(req_text)[1])
             /\ "dateOfBirth" \notin DOMAIN req_data
        ELSE /\ "dateOfBirth" \in DOMAIN req_data
             /\ req_data["dateOfBirth"] = Str(FindDates(req_text)[1])
             /\ "expiryDate" \notin DOMAIN req_data

\* a text parsed as a back side is at hand
BackParsed == pc \in {"extracted", "validated"} /\ origin = "text" /\ req_side = "back"

\* the maximal runs of 9 or more digits of t, left to right
LongDigitRuns(t) == SelectSeq(RunsFrom(t, 1, Range(DigitChars)), LAMBDA r : Len(r) >= 9)

\* C14 as stated: the back side stores as cardNumber the first of the longest
\* runs of 9 or more digits of the text, whatever stands next to the run, and
\* no cardNumber exactly when the text has no such run.
C14_CardNumberIsLongestDigitRun ==
    BackParsed =>
        IF LongDigitRuns(req_text) = <<>>
        THEN "cardNumber" \notin DOMAIN req_data
        ELSE /\ "cardNumber" \in DOMAIN req_data
             /\ req_data["cardNumber"] = Str(LongestFirst(LongDigitRuns(req_text)))

\* C15: back-side validation of a map of strings records no error, so isValid
\* equals isEmiratesID, which holds exactly when cardNumber or idNumber is
\* there and not empty, the test of the confidence against 0.3 changing
\* nothing; a malformed idNumber gives a warning and confidence 0.3, a
\* well-formed one confidence 0.7.
C15_BackSideNeverErrs ==
    (pc = "validated" /\ req_side = "back" /\ OnlyStrings) =>
        /\ outcome.errors = <<>>
        /\ outcome.isValid = outcome.isEmiratesID
        /\ outcome.isEmiratesID <=>
              (FieldStr("cardNumber") # <<>> \/ FieldStr("idNumber") # <<>>)
        /\ outcome.isEmiratesID = BackCheckPresence(Locals, req_data).is_emirates_id
        /\ FieldStr("idNumber") # <<>> =>
              IF validate_id_number_format(FieldStr("idNumber"))
              THEN /\ outcome.confidence = Float(70)
                   /\ outcome.warnings = <<>>
              ELSE /\ outcome.confidence = Float(30)
                   /\ outcome.warnings =
                        <<Entry("ID number format unclear", req_data["idNumber"])>>

C15_Witness ==
    /\ pc = "validated"
    /\ req_side = "back"
    /\ OnlyStrings
    /\ "cardNumber" \notin DOMAIN req_data
    /\ FieldStr("idNumber") # <<>>
    /\ ~validate_id_number_format(FieldStr("idNumber"))
    /\ outcome.isValid
    /\ Len(outcome.warnings) = 1

\* [A-Z][a-z]+ with the case as written: end (exclusive) of the word at i, 0 if none
CapitalizedWordEnd(t, i) ==
    IF i <= Len(t) /\ t[i] \in Range(UpperChars)
          /\ SkipWhile(t, i + 1, Range(LowerChars)) > i + 1
    THEN SkipWhile(t, i + 1, Range(LowerChars))
    ELSE 0

\* from position i on, t is n or more capitalized words separated by white space
RECURSIVE CapitalizedWordsFrom(_, _, _)
CapitalizedWordsFrom(t, i, n) ==
    LET e == CapitalizedWordEnd(t, i)
    IN IF e = 0 THEN FALSE
       ELSE IF e = Len(t) + 1 THEN n <= 1
       ELSE /\ SkipWhile(t, e, Spaces) > e
            /\ CapitalizedWordsFrom(t, SkipWhile(t, e, Spaces), n - 1)

\* C16 as stated: the name the front side extracts is a sequence of two or
\* more words, each an upper-case letter followed by lower-case letters; words
\* in lower case or in upper case throughout are never extracted as a name.
C16_NameIsCapitalizedMultiWord ==
    (FrontParsed /\ "name" \in DOMAIN req_data) =>
        CapitalizedWordsFrom(req_data["name"].s, 1, 2)

\* the dates of a text handed to extract_dates are at hand
DatesAssigned == pc = "extracted" /\ origin = "dates"

\* 1-based start of the first occurrence of the date in the lower-cased text t
FirstOccurrence(t, date) ==
    MinOf({i \in 1..(Len(t) - Len(date) + 1) : SubSeq(t, i, i + Len(date) - 1) = date})

\* one of the words lies wholly within the 20 characters before and the 20
\* characters from the start of the first occurrence of the date
WindowHolds(t, date, words) ==
    \E w \in words : \E i \in 1..Len(t) :
        /\ LitAt(t, i, w)
        /\ i >= FirstOccurrence(Lower(t), date) - 20
        /\ i + Len(w) - 1 <= FirstOccurrence(Lower(t), date) + 19

\* the role the claim gives the date: birth before expiry before issue
ClaimedRole(t, date) ==
    IF WindowHolds(t, date, BirthWords) THEN "dateOfBirth"
    ELSE IF WindowHolds(t, date, ExpiryWords) THEN "expiryDate"
    ELSE IF WindowHolds(t, date, IssueWords) THEN "issueDate"
    ELSE ""

\* the dates of t, by index, that the claim gives the role k
DatesOfRole(t, k) == {i \in 1..Len(FindDates(t)) : ClaimedRole(t, FindDates(t)[i]) = k}

\* C17: extract_dates gives each date the role of the keywords in the window
\* of 20 characters on each side of the start of its first occurrence, birth
\* before expiry before issue; a date with no keyword in its window gets no
\* role, and the result has no key but dateOfBirth, expiryDate and issueDate.
C17_DatesByKeywordWindow ==
    DatesAssigned =>
        /\ DOMAIN req_data \subseteq {"dateOfBirth", "expiryDate", "issueDate"}
        /\ \A k \in {"dateOfBirth", "expiryDate", "issueDate"} :
              IF DatesOfRole(req_text, k) = {}
              THEN k \notin DOMAIN req_data
              ELSE /\ k \in DOMAIN req_data
                   /\ \E i \in DatesOfRole(req_text, k) :
                         /\ req_data[k] = Str(FindDates(req_text)[i])
                         /\ \A j \in DatesOfRole(req_text, k) : j <= i

C17_Witness ==
    /\ DatesAssigned
    /\ Len(FindDates(req_text)) = 1
    /\ WindowHolds(req_text, FindDates(req_text)[1], BirthWords)
    /\ WindowHolds(req_text, FindDates(req_text)[1], ExpiryWords)
    /\ DOMAIN req_data = {"dateOfBirth"}

\* the item is one whose result reports a failure
ItemFails(item) == item.kind # "ok" \/ service # "ready"

\* C18: the response of a batch of n images holds n results in the order of
\* the images, the i-th with index i; the result of an item that has no
\* image, does not decode or is not recognised reports success = false, and
\* the result of every item is the one the item gets when processed alone.
C18_BatchKeepsOrderAndGoesOn ==
    /\ pc = "batch" => Len(results) = idx
    /\ pc = "batch_done" =>
          /\ Len(results) = Len(images)
          /\ \A i \in 1..Len(images) :
                /\ results[i].index = i - 1
                /\ results[i].success = ~ItemFails(images[i])
                /\ results[i].success =>
                      /\ results[i].has_data
                      /\ results[i].data =
                           IF images[i].side = "back"
                           THEN parse_back_side(Join(images[i].tokens))
                           ELSE parse_front_side(Join(images[i].tokens))
                /\ <<results[i]>> = [BatchItem(<<>>, images[i], 0, service)
                                       EXCEPT ![1].index = i - 1]

C18_Witness ==
    /\ pc = "batch_done"
    /\ service = "ready"
    /\ Len(images) = 3
    /\ images[1].kind = "undecodable"
    /\ images[2].kind = "missing"
    /\ images[3].kind = "ok"
    /\ ~results[1].success
    /\ ~results[2].success
    /\ results[3].success
    /\ results[3].index = 2

\* the maps that differ from the map at hand in dateOfBirth at most: without
\* it, with an empty one, a plausible one, one in the future, one before 1900
\* and one that does not parse
BirthVariants ==
    {Remove(req_data, "dateOfBirth")} \cup
    {Put(req_data, "dateOfBirth", Str(v)) :
        v \in {<<>>, BirthDate, FutureDate, OldDate, MixedDate,
               <<"1", "/", "1", "/", "2", "0", "9", "9">>}}

\* C19: on the front side, maps of strings that differ in dateOfBirth only
\* validate to the same isValid, the same isEmiratesID and the same errors;
\* their confidences differ by the weight 0.1 at most.
C19_BirthDateNeverDecides ==
    (pc = "validated" /\ req_side = "front" /\ OnlyStrings) =>
        \A other \in BirthVariants :
            LET o == validate_emirates_id(other, "front", checked_at)
            IN /\ o.isValid = outcome.isValid
               /\ o.isEmiratesID = outcome.isEmiratesID
               /\ o.errors = outcome.errors
               /\ o.confidence[1] - outcome.confidence[1] \in {-10, 0, 10}

C19_Witness ==
    /\ pc = "validated"
    /\ req_side = "front"
    /\ OnlyStrings
    /\ FieldStr("dateOfBirth") = OldDate
    /\ outcome.isValid
    /\ HasEntry(outcome.warnings, "Date of birth seems invalid")
    /\ validate_emirates_id(Put(req_data, "dateOfBirth", Str(BirthDate)), "front",
                            checked_at).confidence[1] = outcome.confidence[1] + 10

\* the starts of the matches re.findall gives for the date pattern, left to right
RECURSIVE DateStartsFrom(_, _)
DateStartsFrom(t, i) ==
    IF i > Len(t) THEN <<>>
    ELSE IF DateMatchEnd(t, i) # 0
         THEN <<i>> \o DateStartsFrom(t, DateMatchEnd(t, i))
         ELSE DateStartsFrom(t, i + 1)

\* the starts of the occurrences stored as dateOfBirth or expiryDate: the
\* first two matches, or the only one
PositionalDateStarts(t) ==
    {DateStartsFrom(t, 1)[k] : k \in {k \in 1..Len(DateStartsFrom(t, 1)) : k <= 2}}

\* the start of the occurrence stored as issueDate, 0 if there is none
IssueDateOccurrence(t) ==
    LET starts == {i \in 1..Len(t) : IssueDateStart(t, i) # 0}
    IN IF starts = {} THEN 0 ELSE IssueDateStart(t, MinOf(starts))

\* C20 as stated: issueDate is set by the labelled issue rule only, and the
\* occurrence stored as issueDate is never the occurrence stored as
\* dateOfBirth or as expiryDate.
C20_IssueDateIsADistinctOccurrence ==
    FrontParsed =>
        /\ ("issueDate" \in DOMAIN req_data) <=> (IssueDateOccurrence(req_text) # 0)
        /\ "issueDate" \in DOMAIN req_data =>
              IssueDateOccurrence(req_text) \notin PositionalDateStarts(req_text)

=============================================================================
